---- MODULE Spec2Model ----
(***************************************************************************)
(* Gamification and leaderboard subsystem of the community API:            *)
(* points / level / achievements of a user (models/User.js,                *)
(* utils/gamification.js, models/Achievement.js) and the leaderboard       *)
(* snapshots (models/Leaderboard.js).                                      *)
(*                                                                         *)
(* Documents are stored in MongoDB through Mongoose.  A handler works on   *)
(* its own in-memory copy of a document; doc.save() writes only the paths  *)
(* the handler modified ($set for scalars and replaced arrays, $push for   *)
(* appended array elements).                                               *)
(***************************************************************************)
EXTENDS Integers, Sequences, FiniteSets, TLC

VARIABLES
    users,      \* the users collection: id -> user document
    articles,   \* the articles collection
    forums,     \* the forums collection (posts with embedded replies)
    events,     \* the events collection (with embedded attendees)
    boards,     \* the leaderboards collection, in insertion order
    now,        \* the wall clock (new Date()), in ticks since the epoch
    procs,      \* in-flight asynchronous handler invocations
    last        \* the last completed operation and what it returned

vars == <<users, articles, forums, events, boards, now, procs, last>>

----------------------------------------------------------------------------
(* Bounds of the model *)

MaxPoints == 110        \* awards are not taken beyond this total
MaxDebt == 30           \* negative amounts are not taken below minus this total
MaxArticles == 1        \* articles created during a run
StartNow == 5           \* the clock starts here (a Saturday afternoon)
MaxNow == 7             \* the clock stops here
TicksPerDay == 2        \* clock resolution
DaysPerMonth == 3       \* length of a month of the model calendar
MonthsPerYear == 2      \* length of a year of the model calendar
MaxCalls == 2           \* handler invocations started per concurrent slot
MaxBoards == 2          \* stored leaderboard snapshots
MaxAwards == 10         \* awardPoints calls in a row
MaxCapacity == 2        \* largest capacity of an event
MaxWaitlist == 2        \* entries taken on the waitlist of an event

UserOrder == <<"u1", "u2", "u3">>   \* the users collection in natural order
UserIds == {UserOrder[i] : i \in 1..Len(UserOrder)}
NoUser == "u0"          \* an id no document has
ProcIds == {1, 2}

----------------------------------------------------------------------------
(* Sequence helpers *)

SeqToSet(s) == {s[i] : i \in 1..Len(s)}

Count(s, Test(_)) == Cardinality({i \in 1..Len(s) : Test(s[i])})

\* Array.prototype.some / find
Some(s, Test(_)) == \E i \in 1..Len(s) : Test(s[i])

----------------------------------------------------------------------------
(* config.gamification.points *)

articleCreate == 10
articleLike == 2
forumPost == 5
forumReply == 3
eventAttend == 8
eventCreate == 15

\* the switch of awardPoints
ActionPoints(action) ==
    CASE action = "article_create" -> articleCreate
      [] action = "article_like"   -> articleLike
      [] action = "forum_post"     -> forumPost
      [] action = "forum_reply"    -> forumReply
      [] action = "event_attend"   -> eventAttend
      [] action = "event_create"   -> eventCreate
      [] OTHER                     -> 0

\* calculateUserLevel
calculateUserLevel(points) == (points \div 100) + 1

----------------------------------------------------------------------------
(* Dates.  The clock counts ticks; day 0 is 1 January 1970, a Thursday. *)

DaysPerWeek == 7

getDay(t) == ((t \div TicksPerDay) + 4) % DaysPerWeek

\* new Date(now.getFullYear(), now.getMonth(), now.getDate())
StartOfDay(t) == (t \div TicksPerDay) * TicksPerDay

\* new Date(now.setDate(now.getDate() - now.getDay())): the time of day is kept
StartOfWeek(t) == t - getDay(t) * TicksPerDay

TicksPerMonth == TicksPerDay * DaysPerMonth
TicksPerYear == TicksPerMonth * MonthsPerYear

\* new Date(now.getFullYear(), now.getMonth(), 1)
StartOfMonth(t) == (t \div TicksPerMonth) * TicksPerMonth

\* new Date(now.getFullYear(), 0, 1)
StartOfYear(t) == (t \div TicksPerYear) * TicksPerYear

\* the switch on criteria.timeframe in checkCriteria
startDate(timeframe, t) ==
    CASE timeframe = "daily"   -> StartOfDay(t)
      [] timeframe = "weekly"  -> StartOfWeek(t)
      [] timeframe = "monthly" -> StartOfMonth(t)
      [] timeframe = "yearly"  -> StartOfYear(t)
      [] OTHER                 -> 0

----------------------------------------------------------------------------
(* The achievements collection (admin-managed, fixed during a run) *)

AchievementIds == <<"a1", "a2", "a3", "a4", "a5", "a6">>

Achievements ==
    [a \in SeqToSet(AchievementIds) |->
        CASE a = "a1" -> [points |-> 50, type |-> "points_earned", value |-> 20,
                          timeframe |-> "all_time", isActive |-> TRUE, isHidden |-> FALSE]
          [] a = "a2" -> [points |-> 0, type |-> "article_count", value |-> 1,
                          timeframe |-> "daily", isActive |-> TRUE, isHidden |-> FALSE]
          [] a = "a3" -> [points |-> 20, type |-> "level_reached", value |-> 2,
                          timeframe |-> "all_time", isActive |-> TRUE, isHidden |-> FALSE]
          [] a = "a4" -> [points |-> 10, type |-> "points_earned", value |-> 10,
                          timeframe |-> "all_time", isActive |-> TRUE, isHidden |-> TRUE]
          [] a = "a5" -> [points |-> 10, type |-> "points_earned", value |-> 10,
                          timeframe |-> "all_time", isActive |-> FALSE, isHidden |-> FALSE]
          [] OTHER    -> [points |-> 5, type |-> "custom", value |-> 1,
                          timeframe |-> "all_time", isActive |-> TRUE, isHidden |-> FALSE]]

----------------------------------------------------------------------------
(* User documents (userSchema.gamification, isActive, loginCount) *)

NewUser == [isActive |-> TRUE, loginCount |-> 0, points |-> 0, level |-> 1,
            badges |-> <<>>, achievements |-> <<>>]

\* User.findById: the in-memory copy a handler works on.  `set' holds the
\* replaced paths, `pushed' the achievement ids appended since the last save.
Load(db, u) == [doc |-> db[u], set |-> {}, pushed |-> <<>>, at |-> 0]

Modify(m, path, val) ==
    IF m.doc[path] = val THEN m
    ELSE [m EXCEPT !.doc = [@ EXCEPT ![path] = val], !.set = @ \cup {path}]

AchEntry(a, t) == [achievement |-> a, earnedAt |-> t]

RECURSIVE Entries(_, _)
Entries(ids, t) ==
    IF ids = <<>> THEN <<>> ELSE <<AchEntry(Head(ids), t)>> \o Entries(Tail(ids), t)

\* doc.save(): the update sent to the store for the copy m of user u
Saved(db, u, m) ==
    LET old == db[u]
        val(path) == IF path \in m.set THEN m.doc[path] ELSE old[path]
    IN [db EXCEPT ![u] =
          [old EXCEPT !.points = val("points"),
                      !.level = val("level"),
                      !.achievements =
                          IF "achievements" \in m.set THEN m.doc.achievements
                          ELSE @ \o Entries(m.pushed, m.at),
                      !.badges =
                          IF "badges" \in m.set THEN m.doc.badges
                          ELSE @ \o m.pushed]]

\* the copy after save(): nothing is pending any more
Clean(m) == [m EXCEPT !.set = {}, !.pushed = <<>>]

\* addPoints that leaves the level alone
addPointsKeepLevel(m, points) == Modify(m, "points", m.doc.points + points)

\* userSchema.methods.addPoints, up to its save()
addPoints(m, points) ==
    LET m1 == Modify(m, "points", m.doc.points + points)
        newLevel == calculateUserLevel(m1.doc.points)
    IN IF newLevel > m1.doc.level THEN Modify(m1, "level", newLevel) ELSE m1

\* only the first entry of the list is compared with the id
HoldsFirstOnly(doc, a) ==
    Len(doc.achievements) > 0 /\ doc.achievements[1].achievement = a

\* hasAchievement / existingAchievement
Holds(doc, a) == Some(doc.achievements, LAMBDA e : e.achievement = a)

\* addAchievement without the existingAchievement test
addAchievementUnchecked(m, a, t) ==
    [m EXCEPT !.doc = [@ EXCEPT !.achievements = Append(@, AchEntry(a, t)),
                                !.badges = Append(@, a)],
              !.pushed = Append(@, a),
              !.at = t]

\* userSchema.methods.addAchievement, up to its save()
addAchievement(m, a, t) ==
    IF ~Holds(m.doc, a)
    THEN [m EXCEPT !.doc = [@ EXCEPT !.achievements = Append(@, AchEntry(a, t)),
                                     !.badges = Append(@, a)],
                   !.pushed = Append(@, a),
                   !.at = t]
    ELSE m

----------------------------------------------------------------------------
(* Achievement criteria (models/Achievement.js) *)

\* Article.aggregate([{$match: {author}}, {$project: {$size: '$likes'}}, {$group: {$sum}}])
RECURSIVE LikesOf(_, _)
LikesOf(arts, u) ==
    IF arts = <<>> THEN 0
    ELSE (IF Head(arts).author = u THEN Head(arts).likes ELSE 0) + LikesOf(Tail(arts), u)

\* the body of checkCriteria for the criteria c = this.criteria, reading the user from db
criteriaMet(c, db, u) ==
    LET start == startDate(c.timeframe, now)
        count ==
            CASE c.type = "article_count" ->
                    Count(articles, LAMBDA x : x.author = u /\ x.status = "published"
                                               /\ x.createdAt >= start)
              [] c.type = "forum_posts" ->
                    Count(forums, LAMBDA f : f.author = u /\ f.createdAt >= start)
              [] c.type = "forum_replies" ->
                    Count(forums, LAMBDA f : /\ Some(f.replies, LAMBDA r : r.author = u)
                                             /\ Some(f.replies, LAMBDA r : r.createdAt >= start))
              [] c.type = "event_attendance" ->
                    Count(events, LAMBDA e : /\ Some(e.attendees, LAMBDA t : t.user = u)
                                             /\ Some(e.attendees, LAMBDA t : t.status = "attending")
                                             /\ Some(e.attendees, LAMBDA t : t.registeredAt >= start))
              [] c.type = "event_creation" ->
                    Count(events, LAMBDA e : e.organizer = u /\ e.createdAt >= start)
              [] c.type = "likes_received" -> LikesOf(articles, u)
              [] c.type = "points_earned" -> db[u].points
              [] c.type = "level_reached" -> db[u].level
              [] c.type = "days_active" -> db[u].loginCount
              [] OTHER -> 0
    IN IF u \notin DOMAIN db THEN FALSE
       ELSE IF c.type \notin {"article_count", "forum_posts", "forum_replies",
                              "event_attendance", "event_creation", "likes_received",
                              "points_earned", "level_reached", "days_active"} THEN FALSE
       ELSE count >= c.value

\* achievementSchema.methods.checkCriteria of the stored achievement a
checkCriteria(a, db, u) == criteriaMet(Achievements[a], db, u)

\* achievementSchema.statics.getAvailableForUser
RECURSIVE Available(_, _, _)
Available(ids, db, u) ==
    IF ids = <<>> THEN <<>>
    ELSE LET a == Head(ids)
             rest == Available(Tail(ids), db, u)
         IN IF Achievements[a].isActive /\ ~Achievements[a].isHidden /\ checkCriteria(a, db, u)
            THEN <<a>> \o rest ELSE rest

getAvailableForUser(db, u) == Available(AchievementIds, db, u)

\* getAvailableForUser when the criteria check of achievement `failing' rejects
\* (a query of checkCriteria fails): the loop has no try/catch, so the first
\* rejected check ends it.  TRUE when the call itself rejects.
RECURSIVE AvailableRejects(_, _)
AvailableRejects(ids, failing) ==
    IF ids = <<>> THEN FALSE
    ELSE LET a == Head(ids)
         IN IF Achievements[a].isActive /\ ~Achievements[a].isHidden /\ a = failing
            THEN TRUE
            ELSE AvailableRejects(Tail(ids), failing)

----------------------------------------------------------------------------
(* utils/gamification.js, each handler run to completion *)

\* the for loop of checkAndAwardAchievements over availableAchievements
RECURSIVE GrantLoop(_, _, _, _, _)
GrantLoop(avail, db, u, m, granted) ==
    IF avail = <<>> THEN [db |-> db, granted |-> granted]
    ELSE LET a == Head(avail)
         IN IF ~Holds(m.doc, a)
            THEN LET m1 == addAchievement(m, a, now)
                 IN GrantLoop(Tail(avail), Saved(db, u, m1), u, Clean(m1), Append(granted, a))
            ELSE GrantLoop(Tail(avail), db, u, m, granted)

\* checkAndAwardAchievements(userId) on an existing user: the store and the
\* returned newAchievements
checkAndAward(db, u) == GrantLoop(getAvailableForUser(db, u), db, u, Load(db, u), <<>>)

NoOp == [op |-> "none", uid |-> NoUser, error |-> FALSE,
         points |-> 0, totalPoints |-> 0, granted |-> <<>>, again |-> FALSE]

\* the record of a completed call
Done(op, u, err, pts, total, granted) ==
    [op |-> op, uid |-> u, error |-> err,
     points |-> pts, totalPoints |-> total, granted |-> granted,
     again |-> (last.op = op /\ last.uid = u /\ ~last.error /\ ~err)]

InRange(p) == p <= MaxPoints /\ p >= 0 - MaxDebt

\* awardPoints that evaluates the achievements before it adds the points
awardPointsCheckFirst(db, u, action) ==
    LET points == ActionPoints(action)
        r == checkAndAward(db, u)
        m == addPoints(Load(r.db, u), points)
    IN IF points > 0
       THEN [db |-> Saved(r.db, u, m), points |-> points, totalPoints |-> m.doc.points,
             granted |-> r.granted]
       ELSE [db |-> db, points |-> points, totalPoints |-> db[u].points, granted |-> <<>>]

\* awardPoints without the `if (points > 0)' around addPoints and the evaluation
awardPointsAlways(db, u, action) ==
    LET points == ActionPoints(action)
        m == addPoints(Load(db, u), points)
        r == checkAndAward(Saved(db, u, m), u)
    IN [db |-> r.db, points |-> points, totalPoints |-> m.doc.points, granted |-> r.granted]

\* awardPoints(userId, action) on an existing user: the store, the returned
\* { points, totalPoints } and the achievements granted on the way
awardPoints(db, u, action) ==
    LET points == ActionPoints(action)
        m == addPoints(Load(db, u), points)
        r == checkAndAward(Saved(db, u, m), u)
    IN IF points > 0
       THEN [db |-> r.db, points |-> points, totalPoints |-> m.doc.points,
             granted |-> r.granted]
       ELSE [db |-> db, points |-> points, totalPoints |-> db[u].points, granted |-> <<>>]

\* awardPoints without the `if (!user) throw': a missing user yields 0 points
AwardPointsNoThrow(u, action) ==
    /\ \A p \in ProcIds : procs[p].pc = "idle"
    /\ IF u \notin DOMAIN users
       THEN /\ last' = Done("awardPoints", u, FALSE, 0, 0, <<>>)
            /\ UNCHANGED users
       ELSE LET r == awardPoints(users, u, action)
            IN /\ InRange(r.totalPoints)
               /\ users' = r.db
               /\ last' = Done("awardPoints", u, FALSE, r.points, r.totalPoints, r.granted)
    /\ UNCHANGED <<articles, forums, events, boards, now, procs>>

AwardPoints(u, action) ==
    /\ \A p \in ProcIds : procs[p].pc = "idle"
    /\ IF u \notin DOMAIN users
       THEN /\ last' = Done("awardPoints", u, TRUE, 0, 0, <<>>)
            /\ UNCHANGED users
       ELSE LET r == awardPoints(users, u, action)
            IN /\ InRange(r.totalPoints)
               /\ users' = r.db
               /\ last' = Done("awardPoints", u, FALSE, r.points, r.totalPoints, r.granted)
    /\ UNCHANGED <<articles, forums, events, boards, now, procs>>

CheckAndAwardAchievements(u) ==
    /\ \A p \in ProcIds : procs[p].pc = "idle"
    /\ IF u \notin DOMAIN users
       THEN /\ last' = Done("checkAndAwardAchievements", u, TRUE, 0, 0, <<>>)
            /\ UNCHANGED users
       ELSE LET r == checkAndAward(users, u)
            IN /\ users' = r.db
               /\ last' = Done("checkAndAwardAchievements", u, FALSE, 0, 0, r.granted)
    /\ UNCHANGED <<articles, forums, events, boards, now, procs>>

\* checkAndAwardAchievements(userId) during which the criteria check of one
\* achievement rejects: the error leaves getAvailableForUser, is logged by the
\* catch block and thrown again, before the grant loop is entered
CheckAndAwardCheckRejects(u, failing) ==
    /\ \A p \in ProcIds : procs[p].pc = "idle"
    /\ u \in DOMAIN users
    /\ AvailableRejects(AchievementIds, failing)
    /\ last' = Done("checkAndAwardAchievements", u, TRUE, 0, 0, <<>>)
    /\ UNCHANGED <<users, articles, forums, events, boards, now, procs>>

\* awardBonusPoints followed by the evaluation that awardPoints runs
AwardBonusPointsAndCheck(u, points) ==
    /\ \A p \in ProcIds : procs[p].pc = "idle"
    /\ IF u \notin DOMAIN users
       THEN /\ last' = Done("awardBonusPoints", u, TRUE, 0, 0, <<>>)
            /\ UNCHANGED users
       ELSE LET m == addPoints(Load(users, u), points)
                r == checkAndAward(Saved(users, u, m), u)
            IN /\ InRange(m.doc.points)
               /\ users' = r.db
               /\ last' = Done("awardBonusPoints", u, FALSE, points, m.doc.points, <<>>)
    /\ UNCHANGED <<articles, forums, events, boards, now, procs>>

AwardBonusPoints(u, points) ==
    /\ \A p \in ProcIds : procs[p].pc = "idle"
    /\ IF u \notin DOMAIN users
       THEN /\ last' = Done("awardBonusPoints", u, TRUE, 0, 0, <<>>)
            /\ UNCHANGED users
       ELSE LET m == addPoints(Load(users, u), points)
            IN /\ InRange(m.doc.points)
               /\ users' = Saved(users, u, m)
               /\ last' = Done("awardBonusPoints", u, FALSE, points, m.doc.points, <<>>)
    /\ UNCHANGED <<articles, forums, events, boards, now, procs>>

\* resetUserGamification without `user.gamification.badges = []'
ResetKeepsBadges(u) ==
    /\ \A p \in ProcIds : procs[p].pc = "idle"
    /\ IF u \notin DOMAIN users
       THEN /\ last' = Done("resetUserGamification", u, TRUE, 0, 0, <<>>)
            /\ UNCHANGED users
       ELSE LET m == Modify(Modify(Modify(Load(users, u),
                         "points", 0), "level", 1), "achievements", <<>>)
            IN /\ users' = Saved(users, u, m)
               /\ last' = Done("resetUserGamification", u, FALSE, 0, 0, <<>>)
    /\ UNCHANGED <<articles, forums, events, boards, now, procs>>

ResetUserGamification(u) ==
    /\ \A p \in ProcIds : procs[p].pc = "idle"
    /\ IF u \notin DOMAIN users
       THEN /\ last' = Done("resetUserGamification", u, TRUE, 0, 0, <<>>)
            /\ UNCHANGED users
       ELSE LET m == Modify(Modify(Modify(Modify(Load(users, u),
                         "points", 0), "level", 1), "badges", <<>>), "achievements", <<>>)
            IN /\ users' = Saved(users, u, m)
               /\ last' = Done("resetUserGamification", u, FALSE, 0, 0, <<>>)
    /\ UNCHANGED <<articles, forums, events, boards, now, procs>>

\* user.addAchievement(achievementId) called on a freshly loaded user
AddAchievement(u, a) ==
    /\ \A p \in ProcIds : procs[p].pc = "idle"
    /\ u \in DOMAIN users
    /\ LET m == addAchievement(Load(users, u), a, now)
       IN /\ users' = Saved(users, u, m)
          /\ last' = Done("addAchievement", u, FALSE, 0, 0,
                          IF Holds(users[u], a) THEN <<>> ELSE <<a>>)
    /\ UNCHANGED <<articles, forums, events, boards, now, procs>>

----------------------------------------------------------------------------
(* Environment: content written by the route handlers, and the clock *)

\* an article is created and published by its author
PublishArticle(u) ==
    /\ \A p \in ProcIds : procs[p].pc = "idle"
    /\ Len(articles) < MaxArticles
    /\ articles' = Append(articles, [author |-> u, status |-> "published",
                                     createdAt |-> now, likes |-> 0])
    /\ last' = Done("content", u, FALSE, 0, 0, <<>>)
    /\ UNCHANGED <<users, forums, events, boards, now, procs>>

\* time passes
Tick ==
    /\ \E t \in (now + 1)..MaxNow : now' = t
    /\ UNCHANGED <<users, articles, forums, events, boards, procs, last>>

----------------------------------------------------------------------------
(* Sequential use of the gamification service *)

BonusAmounts == {0 - 30, 0, 100}

IdleProc == [pc |-> "idle", op |-> "none", uid |-> NoUser, m |-> Load([u \in {NoUser} |-> NewUser], NoUser),
             points |-> 0, total |-> 0, avail |-> <<>>, granted |-> <<>>,
             calls |-> 0, credited |-> 0]

Init ==
    /\ users = [u \in UserIds |-> NewUser]
    /\ articles = <<>>
    /\ forums = <<>>
    /\ events = <<>>
    /\ boards = <<>>
    /\ now = StartNow
    /\ procs = [p \in ProcIds |-> IdleProc]
    /\ last = NoOp

\* the callers' arguments
Callers == {"u1", NoUser}
ActionKinds == {"article_create", "profile_update"}
DirectGrants == {"a1"}
FailingChecks == {"a2"}     \* the achievement whose criteria query is rejected

Next ==
    \/ \E u \in Callers, action \in ActionKinds : AwardPoints(u, action)
    \/ \E u \in Callers : CheckAndAwardAchievements(u)
    \/ \E u \in Callers, a \in FailingChecks : CheckAndAwardCheckRejects(u, a)
    \/ \E u \in Callers, points \in BonusAmounts : AwardBonusPoints(u, points)
    \/ \E u \in Callers : ResetUserGamification(u)
    \/ \E u \in Callers \cap UserIds, a \in DirectGrants : AddAchievement(u, a)
    \/ \E u \in Callers \cap UserIds : PublishArticle(u)
    \/ Tick

Spec == Init /\ [][Next]_vars

----------------------------------------------------------------------------
(* Awards only: awardPoints calls with the rewarded actions, one after the *)
(* other, on a new user                                                    *)

RewardedActions == {"article_create", "article_like", "forum_post", "forum_reply",
                    "event_attend", "event_create"}

NextAward == \E u \in Callers, action \in RewardedActions : AwardPoints(u, action)

SpecAward == Init /\ [][NextAward]_vars

----------------------------------------------------------------------------
(* Concurrent use: each slot runs awardPoints / checkAndAwardAchievements  *)
(* calls one after the other; the calls of different slots interleave at   *)
(* their awaits.                                                           *)

\* awardPoints up to `await user.addPoints(points)': findById and the switch
StartAwardPoints(p, u, action) ==
    /\ procs[p].pc = "idle"
    /\ procs[p].calls < MaxCalls
    /\ u \in DOMAIN users
    /\ LET points == ActionPoints(action)
           m == Load(users, u)
       IN /\ InRange(m.doc.points + points)
          /\ IF points > 0
             THEN /\ procs' = [procs EXCEPT ![p] =
                        [@ EXCEPT !.pc = "addPoints", !.op = "awardPoints", !.uid = u,
                                  !.m = m, !.points = points, !.calls = @ + 1]]
                  /\ UNCHANGED last
             ELSE /\ procs' = [procs EXCEPT ![p] = [@ EXCEPT !.calls = @ + 1]]
                  /\ last' = Done("awardPoints", u, FALSE, points, m.doc.points, <<>>)
    /\ UNCHANGED <<users, articles, forums, events, boards, now>>

\* user.addPoints(points): the copy is changed and saved
StepAddPoints(p) ==
    /\ procs[p].pc = "addPoints"
    /\ LET m == addPoints(procs[p].m, procs[p].points)
       IN /\ users' = Saved(users, procs[p].uid, m)
          /\ procs' = [procs EXCEPT ![p] =
                [@ EXCEPT !.pc = "findById", !.m = Clean(m), !.total = m.doc.points]]
    /\ UNCHANGED <<articles, forums, events, boards, now, last>>

\* checkAndAwardAchievements called on its own
StartCheckAndAward(p, u) ==
    /\ procs[p].pc = "idle"
    /\ procs[p].calls < MaxCalls
    /\ u \in DOMAIN users
    /\ procs' = [procs EXCEPT ![p] =
          [@ EXCEPT !.pc = "findById", !.op = "checkAndAwardAchievements", !.uid = u,
                    !.points = 0, !.total = 0, !.calls = @ + 1]]
    /\ UNCHANGED <<users, articles, forums, events, boards, now, last>>

\* const user = await User.findById(userId) in checkAndAwardAchievements
StepFindById(p) ==
    /\ procs[p].pc = "findById"
    /\ procs' = [procs EXCEPT ![p] =
          [@ EXCEPT !.pc = "getAvailable", !.m = Load(users, procs[p].uid)]]
    /\ UNCHANGED <<users, articles, forums, events, boards, now, last>>

\* await Achievement.getAvailableForUser(userId)
StepGetAvailable(p) ==
    /\ procs[p].pc = "getAvailable"
    /\ procs' = [procs EXCEPT ![p] =
          [@ EXCEPT !.pc = "grant", !.avail = getAvailableForUser(users, procs[p].uid),
                    !.granted = <<>>]]
    /\ UNCHANGED <<users, articles, forums, events, boards, now, last>>

\* one iteration of the for loop: hasAchievement, addAchievement and its save
StepGrant(p) ==
    /\ procs[p].pc = "grant"
    /\ procs[p].avail # <<>>
    /\ LET a == Head(procs[p].avail)
           m == addAchievement(procs[p].m, a, now)
       IN IF ~Holds(procs[p].m.doc, a)
          THEN /\ users' = Saved(users, procs[p].uid, m)
               /\ procs' = [procs EXCEPT ![p] =
                     [@ EXCEPT !.m = Clean(m), !.avail = Tail(@),
                               !.granted = Append(@, a)]]
          ELSE /\ UNCHANGED users
               /\ procs' = [procs EXCEPT ![p] = [@ EXCEPT !.avail = Tail(@)]]
    /\ UNCHANGED <<articles, forums, events, boards, now, last>>

\* a return that starts the evaluation again after a pass that granted something
StepReturnReevaluates(p) ==
    /\ procs[p].pc = "grant"
    /\ procs[p].avail = <<>>
    /\ IF procs[p].granted # <<>>
       THEN /\ procs' = [procs EXCEPT ![p] = [@ EXCEPT !.pc = "findById", !.granted = <<>>]]
            /\ UNCHANGED last
       ELSE /\ last' = Done(procs[p].op, procs[p].uid, FALSE, procs[p].points,
                            procs[p].total, procs[p].granted)
            /\ procs' = [procs EXCEPT ![p] =
                  [IdleProc EXCEPT !.calls = procs[p].calls,
                                   !.credited = procs[p].credited + procs[p].points]]
    /\ UNCHANGED <<users, articles, forums, events, boards, now>>

\* the call returns to its caller
StepReturn(p) ==
    /\ procs[p].pc = "grant"
    /\ procs[p].avail = <<>>
    /\ last' = Done(procs[p].op, procs[p].uid, FALSE, procs[p].points, procs[p].total,
                    procs[p].granted)
    /\ procs' = [procs EXCEPT ![p] =
          [IdleProc EXCEPT !.calls = procs[p].calls,
                           !.credited = procs[p].credited + procs[p].points]]
    /\ UNCHANGED <<users, articles, forums, events, boards, now>>

NextConc ==
    \/ \E p \in ProcIds, u \in Callers, action \in ActionKinds : StartAwardPoints(p, u, action)
    \/ \E p \in ProcIds, u \in Callers : StartCheckAndAward(p, u)
    \/ \E p \in ProcIds : StepAddPoints(p)
    \/ \E p \in ProcIds : StepFindById(p)
    \/ \E p \in ProcIds : StepGetAvailable(p)
    \/ \E p \in ProcIds : StepGrant(p)
    \/ \E p \in ProcIds : StepReturn(p)

SpecConc == Init /\ [][NextConc]_vars

\* the continuation of an await runs once the awaited store call has answered
Resume(p) ==
    \/ StepAddPoints(p)
    \/ StepFindById(p)
    \/ StepGetAvailable(p)
    \/ StepGrant(p)
    \/ StepReturn(p)

SpecConcFair == SpecConc /\ \A p \in ProcIds : WF_vars(Resume(p))

----------------------------------------------------------------------------
(* Leaderboard snapshots (models/Leaderboard.js) *)

\* the enums of leaderboardSchema.type and leaderboardSchema.period
Scopes == {"overall", "articles", "forums", "events", "engagement", "custom"}
Periods == {"daily", "weekly", "monthly", "yearly", "all_time"}

\* the switch on period in generateLeaderboard: <<periodStart, periodEnd>>
periodRange(period, t) ==
    CASE period = "daily"   -> <<StartOfDay(t), StartOfDay(t) + TicksPerDay>>
      [] period = "weekly"  -> <<StartOfWeek(t), StartOfWeek(t) + DaysPerWeek * TicksPerDay>>
      [] period = "monthly" -> <<StartOfMonth(t), StartOfMonth(t) + TicksPerMonth>>
      [] period = "yearly"  -> <<StartOfYear(t), StartOfYear(t) + TicksPerYear>>
      [] OTHER              -> <<0, t>>

NoStats == [articlesCreated |-> 0, forumPosts |-> 0, forumReplies |-> 0,
            eventsAttended |-> 0, eventsCreated |-> 0, likesReceived |-> 0,
            daysActive |-> 0]

InPeriod(d, r) == d >= r[1] /\ d < r[2]

\* the switch on type in generateLeaderboard: the stats of one user
scopeStats(type, u, r) ==
    CASE type = "articles" ->
            [NoStats EXCEPT !.articlesCreated =
                Count(articles, LAMBDA x : x.author = u /\ x.status = "published"
                                           /\ InPeriod(x.createdAt, r))]
      [] type = "forums" ->
            [NoStats EXCEPT
                !.forumPosts = Count(forums, LAMBDA f : f.author = u /\ InPeriod(f.createdAt, r)),
                !.forumReplies =
                    Count(forums, LAMBDA f : /\ Some(f.replies, LAMBDA y : y.author = u)
                                             /\ Some(f.replies, LAMBDA y : y.createdAt >= r[1])
                                             /\ Some(f.replies, LAMBDA y : y.createdAt < r[2]))]
      [] type = "events" ->
            [NoStats EXCEPT
                !.eventsAttended =
                    Count(events, LAMBDA e : /\ Some(e.attendees, LAMBDA y : y.user = u)
                                             /\ Some(e.attendees, LAMBDA y : y.status = "attending")
                                             /\ Some(e.attendees, LAMBDA y : y.registeredAt >= r[1])
                                             /\ Some(e.attendees, LAMBDA y : y.registeredAt < r[2])),
                !.eventsCreated =
                    Count(events, LAMBDA e : e.organizer = u /\ InPeriod(e.createdAt, r))]
      [] type = "engagement" -> [NoStats EXCEPT !.likesReceived = LikesOf(articles, u)]
      [] OTHER -> NoStats

\* the points of one user for the type
scopePoints(type, u, st) ==
    CASE type = "overall"    -> users[u].points
      [] type = "articles"   -> st.articlesCreated * 10
      [] type = "forums"     -> st.forumPosts * 5 + st.forumReplies * 3
      [] type = "events"     -> st.eventsAttended * 8 + st.eventsCreated * 15
      [] type = "engagement" -> st.likesReceived * 2
      [] OTHER               -> 0

RECURSIVE AchIds(_)
AchIds(entries) ==
    IF entries = <<>> THEN <<>> ELSE <<Head(entries).achievement>> \o AchIds(Tail(entries))

\* the loop over User.find() without the isActive filter
RECURSIVE buildEntriesAnyUser(_, _, _, _)
buildEntriesAnyUser(us, type, period, r) ==
    IF us = <<>> THEN <<>>
    ELSE LET u == Head(us)
             st == scopeStats(type, u, r)
             points == scopePoints(type, u, st)
             rest == buildEntriesAnyUser(Tail(us), type, period, r)
         IN IF points > 0 \/ type = "overall"
            THEN <<[user |-> u, points |-> points, level |-> users[u].level, rank |-> 0,
                    badges |-> users[u].badges,
                    achievements |-> AchIds(users[u].achievements),
                    stats |-> st, period |-> period,
                    periodStart |-> r[1], periodEnd |-> r[2]]>> \o rest
            ELSE rest

\* the for loop over the active users: the entries before sorting
RECURSIVE buildEntries(_, _, _, _)
buildEntries(us, type, period, r) ==
    IF us = <<>> THEN <<>>
    ELSE LET u == Head(us)
             st == scopeStats(type, u, r)
             points == scopePoints(type, u, st)
             rest == buildEntries(Tail(us), type, period, r)
         IN IF users[u].isActive /\ (points > 0 \/ type = "overall")
            THEN <<[user |-> u, points |-> points, level |-> users[u].level, rank |-> 0,
                    badges |-> users[u].badges,
                    achievements |-> AchIds(users[u].achievements),
                    stats |-> st, period |-> period,
                    periodStart |-> r[1], periodEnd |-> r[2]]>> \o rest
            ELSE rest

\* entries.sort((a, b) => b.points - a.points): a stable sort
RECURSIVE InsertByPoints(_, _)
InsertByPoints(e, sorted) ==
    IF sorted = <<>> THEN <<e>>
    ELSE IF Head(sorted).points >= e.points
         THEN <<Head(sorted)>> \o InsertByPoints(e, Tail(sorted))
         ELSE <<e>> \o sorted

\* the comparator written as a.points - b.points
RECURSIVE InsertAscending(_, _)
InsertAscending(e, sorted) ==
    IF sorted = <<>> THEN <<e>>
    ELSE IF Head(sorted).points <= e.points
         THEN <<Head(sorted)>> \o InsertAscending(e, Tail(sorted))
         ELSE <<e>> \o sorted

RECURSIVE sortAscending(_)
sortAscending(es) ==
    IF es = <<>> THEN <<>>
    ELSE InsertAscending(es[Len(es)], sortAscending(SubSeq(es, 1, Len(es) - 1)))

RECURSIVE sortByPoints(_)
sortByPoints(es) ==
    IF es = <<>> THEN <<>>
    ELSE InsertByPoints(es[Len(es)], sortByPoints(SubSeq(es, 1, Len(es) - 1)))

\* entries.forEach((entry, index) => { entry.rank = index + 1 })
assignRanks(es) == [i \in 1..Len(es) |-> [es[i] EXCEPT !.rank = i]]

\* the index of the first stored snapshot with the key, 0 if there is none
FindKey(bs, type, period, r) ==
    LET hits == {i \in 1..Len(bs) : /\ bs[i].type = type /\ bs[i].period = period
                                    /\ bs[i].periodStart = r[1] /\ bs[i].periodEnd = r[2]}
    IN IF hits = {} THEN 0 ELSE CHOOSE i \in hits : \A j \in hits : i <= j

\* findOneAndUpdate({type, period, periodStart, periodEnd}, {...}, {upsert: true})
upsertBoard(bs, type, period, r, entries, t) ==
    LET i == FindKey(bs, type, period, r)
        doc == [type |-> type, period |-> period, periodStart |-> r[1], periodEnd |-> r[2],
                entries |-> entries, totalParticipants |-> Len(entries),
                isActive |-> TRUE, generatedAt |-> t]
    IN IF i = 0 THEN Append(bs, doc) ELSE [bs EXCEPT ![i] = doc]

\* the snapshot computed from the users in reverse order once the key is stored
generatedEntriesReordered(type, period, t) ==
    LET us == IF FindKey(boards, type, period, periodRange(period, t)) = 0
              THEN UserOrder
              ELSE [i \in 1..Len(UserOrder) |-> UserOrder[Len(UserOrder) + 1 - i]]
    IN assignRanks(sortByPoints(buildEntries(us, type, period, periodRange(period, t))))

\* leaderboardSchema.statics.generateLeaderboard: the snapshot it computes
generatedEntries(type, period, t) ==
    assignRanks(sortByPoints(buildEntries(UserOrder, type, period, periodRange(period, t))))

\* what the entry schema fills in for a pushed entry
EntryDefaults == [points |-> 0, level |-> 1, badges |-> <<>>, achievements |-> <<>>,
                  stats |-> NoStats]

\* the paths the entry schema requires (rank is set before the save)
EntryRequired == {"period", "periodStart", "periodEnd"}

\* { ...base, ...over }
Spread(base, over) ==
    [f \in DOMAIN base \cup DOMAIN over |-> IF f \in DOMAIN over THEN over[f] ELSE base[f]]

findIndex(es, u) ==
    LET hits == {i \in 1..Len(es) : es[i].user = u}
    IN IF hits = {} THEN 0 ELSE CHOOSE i \in hits : \A j \in hits : i <= j

\* updateEntry without the totalParticipants assignment
updateEntryNoCount(board, u, userData) ==
    LET i == findIndex(board.entries, u)
        entry == IF i > 0 THEN Spread(Spread(board.entries[i], userData), [user |-> u])
                 ELSE Spread(Spread(Spread(EntryDefaults, [rank |-> 0]), userData), [user |-> u])
        es == IF i > 0 THEN [board.entries EXCEPT ![i] = entry]
              ELSE Append(board.entries, entry)
    IN [board EXCEPT !.entries = assignRanks(sortByPoints(es))]

\* leaderboardSchema.methods.updateEntry on a loaded snapshot, up to its save()
updateEntry(board, u, userData) ==
    LET i == findIndex(board.entries, u)
        entry == IF i > 0 THEN Spread(Spread(board.entries[i], userData), [user |-> u])
                 ELSE Spread(Spread(Spread(EntryDefaults, [rank |-> 0]), userData), [user |-> u])
        es == IF i > 0 THEN [board.entries EXCEPT ![i] = entry]
              ELSE Append(board.entries, entry)
        ranked == assignRanks(sortByPoints(es))
    IN [board EXCEPT !.entries = ranked, !.totalParticipants = Len(ranked)]

\* the save() of updateEntry is rejected when an entry lacks a required path
EntriesValid(board) ==
    \A i \in 1..Len(board.entries) : EntryRequired \subseteq DOMAIN board.entries[i]

GenerateLeaderboard(type, period) ==
    /\ \A p \in ProcIds : procs[p].pc = "idle"
    /\ LET r == periodRange(period, now)
       IN /\ FindKey(boards, type, period, r) = 0 => Len(boards) < MaxBoards
          /\ boards' = upsertBoard(boards, type, period, r,
                                   generatedEntries(type, period, now), now)
    /\ last' = Done("generateLeaderboard", NoUser, FALSE, 0, 0, <<>>)
    /\ UNCHANGED <<users, articles, forums, events, now, procs>>

\* getCurrent reading the sort as { 'metadata.generatedAt': 1 }: the oldest snapshot
getCurrentOldest(bs, type, period) ==
    LET hits == {i \in 1..Len(bs) : bs[i].type = type /\ bs[i].period = period
                                    /\ bs[i].isActive}
        first == {i \in hits : \A j \in hits : bs[i].generatedAt <= bs[j].generatedAt}
    IN IF hits = {} THEN 0 ELSE CHOOSE i \in first : \A j \in first : i <= j

\* leaderboardSchema.statics.getCurrent: the index of the active snapshot of
\* (type, period) generated last, 0 if there is none
getCurrent(bs, type, period) ==
    LET hits == {i \in 1..Len(bs) : bs[i].type = type /\ bs[i].period = period
                                    /\ bs[i].isActive}
        latest == {i \in hits : \A j \in hits : bs[i].generatedAt >= bs[j].generatedAt}
    IN IF hits = {} THEN 0 ELSE CHOOSE i \in latest : \A j \in latest : i <= j

\* entries.slice(0, limit)
slice(es, limit) == SubSeq(es, 1, IF limit < Len(es) THEN limit ELSE Len(es))

\* getLeaderboard(type, period, limit) of the gamification service
GetLeaderboard(type, period, limit) ==
    /\ \A p \in ProcIds : procs[p].pc = "idle"
    /\ LET i == getCurrent(boards, type, period)
           r == periodRange(period, now)
           bs == IF i # 0 THEN boards
                 ELSE upsertBoard(boards, type, period, r,
                                  generatedEntries(type, period, now), now)
           leaderboard == IF i # 0 THEN boards[i] ELSE bs[FindKey(bs, type, period, r)]
       IN /\ Len(bs) <= MaxBoards
          /\ boards' = bs
          /\ last' = Spread(Done("getLeaderboard", NoUser, FALSE, 0, 0, <<>>),
                            [type |-> type, period |-> period,
                             entries |-> slice(leaderboard.entries, limit),
                             totalParticipants |-> leaderboard.totalParticipants,
                             generatedAt |-> leaderboard.generatedAt])
    /\ UNCHANGED <<users, articles, forums, events, now, procs>>

UpdateEntry(i, u, userData) ==
    /\ \A p \in ProcIds : procs[p].pc = "idle"
    /\ i \in 1..Len(boards)
    /\ LET b == updateEntry(boards[i], u, userData)
       IN IF EntriesValid(b)
          THEN /\ boards' = [boards EXCEPT ![i] = b]
               /\ last' = Done("updateEntry", u, FALSE, 0, 0, <<>>)
          ELSE /\ UNCHANGED boards
               /\ last' = Done("updateEntry", u, TRUE, 0, 0, <<>>)
    /\ UNCHANGED <<users, articles, forums, events, now, procs>>

----------------------------------------------------------------------------
(* Leaderboard generation over a populated store *)

SamplePoints == [u \in UserIds |-> IF u = "u1" THEN 50 ELSE 100]
\* the third user ties with the second, has no points, or is deactivated
ThirdUser == {[points |-> 100, isActive |-> TRUE], [points |-> 0, isActive |-> TRUE],
              [points |-> 100, isActive |-> FALSE]}

SampleArticles ==
    << [author |-> "u1", status |-> "published", createdAt |-> StartNow, likes |-> 2],
       [author |-> "u1", status |-> "draft", createdAt |-> StartNow, likes |-> 3],
       [author |-> "u2", status |-> "published", createdAt |-> 1, likes |-> 0] >>

SampleForums ==
    << [author |-> "u1", createdAt |-> StartNow,
        replies |-> << [author |-> "u2", createdAt |-> StartNow],
                       [author |-> "u3", createdAt |-> 1] >>],
       [author |-> "u2", createdAt |-> 1, replies |-> <<>>] >>

SampleEvents ==
    << [organizer |-> "u2", createdAt |-> StartNow,
        attendees |-> << [user |-> "u1", status |-> "maybe", registeredAt |-> StartNow],
                         [user |-> "u3", status |-> "attending", registeredAt |-> 1] >>] >>

\* the (type, period) pairs asked for
BoardKeys == {<<"overall", "all_time">>, <<"articles", "daily">>,
              <<"forums", "weekly">>, <<"events", "monthly">>, <<"engagement", "yearly">>,
              <<"custom", "all_time">>}

\* the userData objects passed to updateEntry
UserDatas == { [points |-> 60],
               [points |-> 20, rank |-> 9, period |-> "daily", periodStart |-> 4,
                periodEnd |-> 6] }
UpdatedUsers == {"u2"}
UpdatedBoards == {1}    \* updateEntry is called on the oldest stored snapshot

InitLb ==
    /\ \E third \in ThirdUser :
          users = [u \in UserIds |->
                      LET pts == IF u = "u3" THEN third.points ELSE SamplePoints[u]
                      IN [NewUser EXCEPT !.points = pts,
                                         !.level = calculateUserLevel(pts),
                                         !.isActive = (u = "u3" => third.isActive)]]
    /\ articles = SampleArticles
    /\ forums = SampleForums
    /\ events = SampleEvents
    /\ boards = <<>>
    /\ now = StartNow
    /\ procs = [p \in ProcIds |-> IdleProc]
    /\ last = NoOp

NextLb ==
    \/ \E k \in BoardKeys : GenerateLeaderboard(k[1], k[2])
    \/ \E i \in UpdatedBoards, u \in UpdatedUsers, d \in UserDatas : UpdateEntry(i, u, d)
    \/ Tick

SpecLb == InitLb /\ [][NextLb]_vars

----------------------------------------------------------------------------
(* Leaderboard generation and retrieval alone, over two populated stores *)

\* content in which every thread and every event holds records of one user only
OwnArticles ==
    << [author |-> "u1", status |-> "published", createdAt |-> StartNow, likes |-> 2],
       [author |-> "u2", status |-> "published", createdAt |-> 1, likes |-> 1] >>

OwnForums ==
    << [author |-> "u1", createdAt |-> StartNow,
        replies |-> << [author |-> "u1", createdAt |-> StartNow] >>],
       [author |-> "u2", createdAt |-> 1,
        replies |-> << [author |-> "u2", createdAt |-> 1] >>] >>

OwnEvents ==
    << [organizer |-> "u2", createdAt |-> StartNow,
        attendees |-> << [user |-> "u1", status |-> "attending", registeredAt |-> StartNow] >>],
       [organizer |-> "u1", createdAt |-> 1,
        attendees |-> << [user |-> "u3", status |-> "not_attending", registeredAt |-> 1] >>] >>

Contents == { [articles |-> SampleArticles, forums |-> SampleForums, events |-> SampleEvents],
              [articles |-> OwnArticles, forums |-> OwnForums, events |-> OwnEvents] }

InitGen ==
    /\ \E third \in ThirdUser :
          users = [u \in UserIds |->
                      LET pts == IF u = "u3" THEN third.points ELSE SamplePoints[u]
                      IN [NewUser EXCEPT !.points = pts,
                                         !.level = calculateUserLevel(pts),
                                         !.isActive = (u = "u3" => third.isActive)]]
    /\ \E c \in Contents : articles = c.articles /\ forums = c.forums /\ events = c.events
    /\ boards = <<>>
    /\ now = StartNow
    /\ procs = [p \in ProcIds |-> IdleProc]
    /\ last = NoOp

NextGen ==
    \/ \E k \in BoardKeys : GenerateLeaderboard(k[1], k[2])
    \/ Tick

SpecGen == InitGen /\ [][NextGen]_vars

\* retrieval through the gamification service, next to scheduled generation;
\* the arguments of getLeaderboard: the defaults and a short list
GetKeys == {<<"overall", "all_time">>, <<"forums", "weekly">>}
Limits == {2, 10}

NextGet ==
    \/ \E k \in GetKeys : GenerateLeaderboard(k[1], k[2])
    \/ \E k \in GetKeys, limit \in Limits : GetLeaderboard(k[1], k[2], limit)
    \/ Tick

SpecGet == InitGen /\ [][NextGet]_vars

\* the criteria an achievement document can carry
CriteriaTypes == {"article_count", "forum_posts", "forum_replies", "event_attendance",
                  "event_creation", "likes_received", "days_active", "consecutive_days",
                  "points_earned", "level_reached", "custom"}
CriteriaValues == {1, 2, 20}

----------------------------------------------------------------------------
(* Event registration (models/Event.js, routes/events.js) *)

NoCapacity == 0     \* capacity: null, unlimited

\* eventSchema.virtual('attendeeCount')
attendeeCount(ev) ==
    Cardinality({i \in 1..Len(ev.attendees) : ev.attendees[i].status = "attending"})

\* eventSchema.virtual('isFull'): this.capacity && this.attendeeCount >= this.capacity
isFull(ev) == ev.capacity # NoCapacity /\ attendeeCount(ev) >= ev.capacity

\* attendees.find(a => a.user.toString() === userId.toString()): its index, 0 if none
findAttendee(ev, u) ==
    LET hits == {i \in 1..Len(ev.attendees) : ev.attendees[i].user = u}
    IN IF hits = {} THEN 0 ELSE CHOOSE i \in hits : \A j \in hits : i <= j

\* registerUser refused: the event is full and has no waitlist
registerRejects(ev, u, status) ==
    findAttendee(ev, u) = 0 /\ isFull(ev) /\ status = "attending" /\ ~ev.allowWaitlist

\* eventSchema.methods.registerUser, up to its save(), when it does not throw
registerUser(ev, u, status, t) ==
    LET i == findAttendee(ev, u)
    IN IF i # 0
       THEN [ev EXCEPT !.attendees[i].status = status]
       ELSE IF isFull(ev) /\ status = "attending"
            THEN [ev EXCEPT !.waitlist = Append(@, u)]
            ELSE [ev EXCEPT !.attendees =
                     Append(@, [user |-> u, status |-> status, registeredAt |-> t])]

\* this.attendees.filter(attendee => attendee.user.toString() !== userId.toString())
RECURSIVE filterAttendees(_, _)
filterAttendees(as, u) ==
    IF as = <<>> THEN <<>>
    ELSE IF Head(as).user # u THEN <<Head(as)>> \o filterAttendees(Tail(as), u)
         ELSE filterAttendees(Tail(as), u)

\* this.waitlist.filter(id => id.toString() !== userId.toString())
RECURSIVE filterWaitlist(_, _)
filterWaitlist(w, u) ==
    IF w = <<>> THEN <<>>
    ELSE IF Head(w) # u THEN <<Head(w)>> \o filterWaitlist(Tail(w), u)
         ELSE filterWaitlist(Tail(w), u)

\* eventSchema.methods.unregisterUser, up to its save()
unregisterUser(ev, u) ==
    [ev EXCEPT !.attendees = filterAttendees(@, u), !.waitlist = filterWaitlist(@, u)]

RegisterUser(e, u, status) ==
    /\ \A p \in ProcIds : procs[p].pc = "idle"
    /\ e \in 1..Len(events)
    /\ IF registerRejects(events[e], u, status)
       THEN /\ UNCHANGED events
            /\ last' = Done("registerUser", u, TRUE, 0, 0, <<>>)
       ELSE LET ev == registerUser(events[e], u, status, now)
            IN /\ Len(ev.waitlist) <= MaxWaitlist
               /\ events' = [events EXCEPT ![e] = ev]
               /\ last' = Done("registerUser", u, FALSE, 0, 0, <<>>)
    /\ UNCHANGED <<users, articles, forums, boards, now, procs>>

UnregisterUser(e, u) ==
    /\ \A p \in ProcIds : procs[p].pc = "idle"
    /\ e \in 1..Len(events)
    /\ events' = [events EXCEPT ![e] = unregisterUser(events[e], u)]
    /\ last' = Done("unregisterUser", u, FALSE, 0, 0, <<>>)
    /\ UNCHANGED <<users, articles, forums, boards, now, procs>>

\* router.post('/:id/rsvp'): toggles the attendance of the current user
Rsvp(e, u) ==
    /\ \A p \in ProcIds : procs[p].pc = "idle"
    /\ e \in 1..Len(events)
    /\ IF findAttendee(events[e], u) # 0
       THEN /\ events' = [events EXCEPT ![e] = unregisterUser(events[e], u)]
            /\ last' = Done("rsvp", u, FALSE, 0, 0, <<>>)
       ELSE IF registerRejects(events[e], u, "attending")
            THEN /\ UNCHANGED events
                 /\ last' = Done("rsvp", u, TRUE, 0, 0, <<>>)
            ELSE LET ev == registerUser(events[e], u, "attending", now)
                 IN /\ Len(ev.waitlist) <= MaxWaitlist
                    /\ events' = [events EXCEPT ![e] = ev]
                    /\ last' = Done("rsvp", u, FALSE, 0, 0, <<>>)
    /\ UNCHANGED <<users, articles, forums, boards, now, procs>>

Capacities == {NoCapacity} \cup (1..MaxCapacity)
Statuses == {"attending", "maybe", "not_attending"}

\* a new event: nobody is registered
InitEvent ==
    /\ users = [u \in UserIds |-> NewUser]
    /\ articles = <<>>
    /\ forums = <<>>
    /\ \E c \in Capacities, w \in BOOLEAN :
          events = << [organizer |-> "u1", createdAt |-> StartNow, capacity |-> c,
                       allowWaitlist |-> w, attendees |-> <<>>, waitlist |-> <<>>] >>
    /\ boards = <<>>
    /\ now = StartNow
    /\ procs = [p \in ProcIds |-> IdleProc]
    /\ last = NoOp

NextEvent ==
    \/ \E u \in UserIds, status \in Statuses : RegisterUser(1, u, status)
    \/ \E u \in UserIds : UnregisterUser(1, u)
    \/ \E u \in UserIds : Rsvp(1, u)

SpecEvent == InitEvent /\ [][NextEvent]_vars

----------------------------------------------------------------------------
(* Properties *)

AllIdle == \A p \in ProcIds : procs[p].pc = "idle"

NoRepeat(s) == \A i, j \in 1..Len(s) : i # j => s[i] # s[j]

RECURSIVE RewardSum(_)
RewardSum(ids) ==
    IF ids = <<>> THEN 0 ELSE Achievements[Head(ids)].points + RewardSum(Tail(ids))

\* a step of a handler (the clock stands still) that completed the call `op'
Completes(op) == now' = now /\ last'.op = op /\ ~last'.error

\* C1: in every state reached by awardPoints, awardBonusPoints,
\* checkAndAwardAchievements and resetUserGamification calls, the stored level
\* of a user is floor(points / 100) + 1 of the stored points.
C1_LevelDerivedFromPoints ==
    \A u \in UserIds : users[u].level = (users[u].points \div 100) + 1

\* C2: when concurrent awardPoints calls for a user have all returned, the
\* stored points are the initial points plus every reward the calls returned:
\* no award is lost.
C2_NoLostAward ==
    AllIdle => users["u1"].points = procs[1].credited + procs[2].credited

\* C3: no award operation leaves a user's points or level lower than before;
\* only resetUserGamification lowers them, and it sets them to 0 and 1.
C3_OnlyResetLowers ==
    [][\A u \in UserIds :
          (users'[u].points < users[u].points \/ users'[u].level < users[u].level)
             => /\ last'.op = "resetUserGamification"
                /\ users'[u].points = 0
                /\ users'[u].level = 1]_vars

\* C4: under sequential calls, each achievement id appears at most once in a
\* user's achievements list and at most once in the badges.
C4_NoDuplicateAchievement ==
    \A u \in UserIds : /\ NoRepeat(AchIds(users[u].achievements))
                       /\ NoRepeat(users[u].badges)

\* the criteria of a held achievement are still met when a grant is attempted again
C4_Witness ==
    /\ last.op \in {"checkAndAwardAchievements", "addAchievement"}
    /\ last.again
    /\ last.granted = <<>>
    /\ users["u1"].points >= Achievements["a1"].value
    /\ \E i \in 1..Len(users["u1"].achievements) :
          users["u1"].achievements[i].achievement = "a1"

\* C5: after two concurrent checkAndAwardAchievements calls for a user who
\* newly qualifies for an achievement, the stored achievements list holds that
\* achievement once, not twice.
C5_ConcurrentGrantOnce ==
    AllIdle => NoRepeat(AchIds(users["u1"].achievements))

\* C6: when checkAndAwardAchievements grants achievements that carry a point
\* reward, the user's points grow by that reward in the same call.
C6_GrantCreditsReward ==
    [][Completes("checkAndAwardAchievements")
          => users'[last'.uid].points = users[last'.uid].points + RewardSum(last'.granted)]_vars

Descending(es) == \A i \in 1..(Len(es) - 1) : es[i].points >= es[i + 1].points

RankedByPosition(es) == \A i \in 1..Len(es) : es[i].rank = i

\* C8: the entries generateLeaderboard computes for any scope and period, and
\* the entries of every stored snapshot (after generateLeaderboard and after
\* updateEntry), are in descending order of points, and the rank of an entry
\* is its 1-based position.
C8_SortedAndRanked ==
    /\ \A type \in Scopes, period \in Periods :
          LET es == generatedEntries(type, period, now)
          IN Descending(es) /\ RankedByPosition(es)
    /\ \A b \in 1..Len(boards) :
          Descending(boards[b].entries) /\ RankedByPosition(boards[b].entries)

\* a snapshot that updateEntry re-sorted: the updated user moved behind another
C8_Witness ==
    /\ last.op = "updateEntry"
    /\ ~last.error
    /\ \E b \in 1..Len(boards) :
          LET es == boards[b].entries
          IN /\ Len(es) >= 3
             /\ es[1].points > es[2].points
             /\ es[2].points > es[3].points
             /\ es[1].user = "u3"
             /\ es[2].user = "u2"

\* C9: for each (scope, period) pair at most one stored snapshot is active.
C9_OneActivePerKey ==
    \A i, j \in 1..Len(boards) :
        (i # j /\ boards[i].type = boards[j].type /\ boards[i].period = boards[j].period)
            => ~(boards[i].isActive /\ boards[j].isActive)

\* C10: in every stored snapshot totalParticipants is the number of entries.
C10_ParticipantsCounted ==
    \A b \in 1..Len(boards) : boards[b].totalParticipants = Len(boards[b].entries)

\* updateEntry added an entry to a snapshot that was generated without entries
C10_Witness ==
    /\ last.op = "updateEntry"
    /\ ~last.error
    /\ \E b \in 1..Len(boards) :
          /\ boards[b].type = "custom"
          /\ Len(boards[b].entries) = 1
          /\ boards[b].totalParticipants = 1

InEntries(es, u) == \E i \in 1..Len(es) : es[i].user = u

\* C11: the snapshot generateLeaderboard computes for a scope and period holds
\* a user if and only if the user is active and (the score computed for the
\* scope is above 0 or the scope is overall); so for overall every active user
\* is in it, also with 0 points, and an inactive user is in none.
C11_IncludedIffActiveAndScored ==
    \A type \in Scopes, period \in Periods :
        LET r == periodRange(period, now)
            es == generatedEntries(type, period, now)
        IN \A u \in UserIds :
              LET score == scopePoints(type, u, scopeStats(type, u, r))
              IN /\ InEntries(es, u)
                      <=> (users[u].isActive /\ (score > 0 \/ type = "overall"))
                 /\ type = "overall" => (InEntries(es, u) <=> users[u].isActive)
                 /\ ~users[u].isActive => ~InEntries(es, u)

\* an overall snapshot was stored with a user at 0 points, and a snapshot of
\* another scope was stored without that user
C11_Witness ==
    /\ last.op = "generateLeaderboard"
    /\ users["u3"].isActive
    /\ \E b \in 1..Len(boards) :
          /\ boards[b].type = "overall"
          /\ \E i \in 1..Len(boards[b].entries) :
                boards[b].entries[i].user = "u3" /\ boards[b].entries[i].points = 0
    /\ \E b \in 1..Len(boards) :
          /\ boards[b].type = "engagement"
          /\ boards[b].entries # <<>>
          /\ ~InEntries(boards[b].entries, "u3")

\* the posts a user authored with a creation time in the range
PostsBy(u, r) == Cardinality({i \in 1..Len(forums) :
                                 forums[i].author = u /\ InPeriod(forums[i].createdAt, r)})

\* the replies a user authored with a creation time in the range
RepliesBy(u, r) ==
    Cardinality(UNION {{<<i, j>> : j \in {k \in 1..Len(forums[i].replies) :
                                            /\ forums[i].replies[k].author = u
                                            /\ InPeriod(forums[i].replies[k].createdAt, r)}} :
                       i \in 1..Len(forums)})

\* C12: for scope forums the score of every user in the generated snapshot is
\* 5 x (posts the user authored in [periodStart, periodEnd)) + 3 x (replies
\* the user authored in that range), and stats.forumPosts and
\* stats.forumReplies are those two counts, whatever other users wrote in the
\* same threads.
C12_ForumsScore ==
    \A period \in Periods :
        LET r == periodRange(period, now)
            es == generatedEntries("forums", period, now)
        IN \A i \in 1..Len(es) :
              /\ es[i].points = 5 * PostsBy(es[i].user, r) + 3 * RepliesBy(es[i].user, r)
              /\ es[i].stats.forumPosts = PostsBy(es[i].user, r)
              /\ es[i].stats.forumReplies = RepliesBy(es[i].user, r)

\* the events at which the user's own attendee record is an attendance registered in the range
AttendedBy(u, r) ==
    Cardinality({i \in 1..Len(events) :
                    \E j \in 1..Len(events[i].attendees) :
                        /\ events[i].attendees[j].user = u
                        /\ events[i].attendees[j].status = "attending"
                        /\ InPeriod(events[i].attendees[j].registeredAt, r)})

\* the events the user organised with a creation time in the range
OrganisedBy(u, r) ==
    Cardinality({i \in 1..Len(events) :
                    events[i].organizer = u /\ InPeriod(events[i].createdAt, r)})

\* C13: for scope events the score of every user in the generated snapshot is
\* 8 x (events where the user's own attendee record has status attending and
\* a registration time in [periodStart, periodEnd)) + 15 x (events the user
\* organised with a creation time in that range), independent of the attendee
\* records of other users.
C13_EventsScore ==
    \A period \in Periods :
        LET r == periodRange(period, now)
            es == generatedEntries("events", period, now)
        IN \A i \in 1..Len(es) :
              es[i].points = 8 * AttendedBy(es[i].user, r) + 15 * OrganisedBy(es[i].user, r)

\* the likes on the articles of a user that are published
RECURSIVE PublishedLikes(_, _)
PublishedLikes(arts, u) ==
    IF arts = <<>> THEN 0
    ELSE (IF Head(arts).author = u /\ Head(arts).status = "published"
          THEN Head(arts).likes ELSE 0) + PublishedLikes(Tail(arts), u)

\* C14: for scope engagement the score of every user in the generated snapshot
\* is 2 x the likes on the user's published articles; likes on draft or
\* archived articles do not count.
C14_EngagementScore ==
    \A period \in Periods :
        LET es == generatedEntries("engagement", period, now)
        IN \A i \in 1..Len(es) : es[i].points = 2 * PublishedLikes(articles, es[i].user)

RankOrder(es) == [i \in 1..Len(es) |-> [user |-> es[i].user, points |-> es[i].points]]

RECURSIVE AfterAwards(_, _, _, _)
AfterAwards(db, u, n, action) ==
    IF n = 0 THEN db ELSE awardPoints(AfterAwards(db, u, n - 1, action), u, action).db

\* C16: an awardPoints call with a recognised action of reward r > 0 returns
\* points r and totalPoints = previous total + r, and the stored points are
\* that total; n such calls in a row for a user at 0 points leave n * r stored
\* points and level floor(n * r / 100) + 1.
C16_AwardsAddUp ==
    /\ [][(Completes("awardPoints") /\ last'.uid \in UserIds)
            => /\ \E action \in RewardedActions : last'.points = ActionPoints(action)
               /\ last'.totalPoints = users[last'.uid].points + last'.points
               /\ users'[last'.uid].points = last'.totalPoints
               /\ users'[last'.uid].level = (last'.totalPoints \div 100) + 1]_vars
    /\ [](\A u \in UserIds :
            users[u].points = 0
               => \A action \in RewardedActions, n \in 0..MaxAwards :
                     LET after == AfterAwards(users, u, n, action)[u]
                     IN /\ after.points = n * ActionPoints(action)
                        /\ after.level = ((n * ActionPoints(action)) \div 100) + 1)

\* the tenth award of 10 points in a row took the user to 100 points and level 2
C16_Witness ==
    /\ last.op = "awardPoints"
    /\ last.again
    /\ last.points = articleCreate
    /\ last.totalPoints = 100
    /\ users["u1"].points = 100
    /\ users["u1"].level = 2

\* C17: when the criteria check of one achievement fails with an error during
\* checkAndAwardAchievements, the other active, non-hidden achievements whose
\* criteria the user meets are still granted by that call.
C17_FailedCheckIsolated ==
    [][(now' = now /\ last'.op = "checkAndAwardAchievements" /\ last'.error
           /\ last'.uid \in UserIds)
          => \A a \in SeqToSet(AchievementIds) \ FailingChecks :
                (Achievements[a].isActive /\ ~Achievements[a].isHidden
                    /\ checkCriteria(a, users, last'.uid))
                   => Holds(users'[last'.uid], a)]_vars

\* the value of a metric of a user since the start of a timeframe
MetricValue(type, timeframe, u) ==
    LET r == <<startDate(timeframe, now), now + 1>>
    IN CASE type = "article_count" ->
               Cardinality({i \in 1..Len(articles) :
                               /\ articles[i].author = u
                               /\ articles[i].status = "published"
                               /\ InPeriod(articles[i].createdAt, r)})
         [] type = "forum_posts"      -> PostsBy(u, r)
         [] type = "forum_replies"    -> RepliesBy(u, r)
         [] type = "event_attendance" -> AttendedBy(u, r)
         [] type = "event_creation"   -> OrganisedBy(u, r)
         [] type = "likes_received"   -> LikesOf(articles, u)
         [] type = "points_earned"    -> users[u].points
         [] type = "level_reached"    -> users[u].level
         [] OTHER                     -> users[u].loginCount

\* C18: checkCriteria returns true if and only if the user's value of the
\* achievement's metric within the achievement's timeframe is at least the
\* criteria value, for the metric types article_count, forum_posts,
\* forum_replies, event_attendance, event_creation, likes_received,
\* points_earned, level_reached and days_active.
C18_CriteriaIffMetricReached ==
    \A type \in CriteriaTypes \ {"custom", "consecutive_days"}, timeframe \in Periods,
       value \in CriteriaValues, u \in UserIds :
        criteriaMet([type |-> type, value |-> value, timeframe |-> timeframe], users, u)
            <=> MetricValue(type, timeframe, u) >= value

\* C19: awardPoints(userId, action) for an id no user has fails with the
\* not-found error; the call changes no user's points, level, badges or
\* achievements and grants nothing.
C19_MissingUserRejected ==
    [][(now' = now /\ last'.op = "awardPoints" /\ last'.uid \notin UserIds)
          => /\ last'.error
             /\ last'.granted = <<>>
             /\ users' = users]_vars

\* the call failed for the unknown id while a user holds points and an achievement
C19_Witness ==
    /\ last.op = "awardPoints"
    /\ last.uid = NoUser
    /\ last.error
    /\ users["u1"].points > 0
    /\ users["u1"].achievements # <<>>

\* the stored active snapshots of a (type, period) pair
SnapshotsOf(bs, type, period) ==
    {i \in 1..Len(bs) : bs[i].type = type /\ bs[i].period = period /\ bs[i].isActive}

\* C20: getLeaderboard(scope, period) returns the active snapshot of the pair
\* that was generated last and leaves the store as it is; when the pair has no
\* snapshot it generates and stores one and returns that; so after an access
\* a snapshot of the pair is stored.
C20_GetReturnsLatestStored ==
    [][Completes("getLeaderboard")
          => LET had == SnapshotsOf(boards, last'.type, last'.period)
                 has == SnapshotsOf(boards', last'.type, last'.period)
             IN /\ has # {}
                /\ had # {} => boards' = boards
                /\ had = {} => \E i \in has : boards'[i].generatedAt = now
                /\ \E i \in has :
                      /\ \A j \in has : boards'[j].generatedAt <= boards'[i].generatedAt
                      /\ last'.generatedAt = boards'[i].generatedAt
                      /\ last'.totalParticipants = boards'[i].totalParticipants
                      /\ \E n \in 0..Len(boards'[i].entries) :
                            last'.entries = SubSeq(boards'[i].entries, 1, n)]_vars

\* a later access returned the newer of two stored snapshots of the pair,
\* generated before the access
C20_Witness ==
    /\ last.op = "getLeaderboard"
    /\ last.again
    /\ Cardinality(SnapshotsOf(boards, last.type, last.period)) = 2
    /\ \E i, j \in SnapshotsOf(boards, last.type, last.period) :
          /\ boards[i].generatedAt < boards[j].generatedAt
          /\ last.generatedAt = boards[j].generatedAt
    /\ last.generatedAt < now
    /\ Len(last.entries) < last.totalParticipants

\* the achievements whose criteria read the stored points or the stored level
OnPointsOrLevel(a) ==
    /\ Achievements[a].isActive
    /\ ~Achievements[a].isHidden
    /\ Achievements[a].type \in {"points_earned", "level_reached"}

Reached(a, doc) ==
    IF Achievements[a].type = "points_earned" THEN doc.points >= Achievements[a].value
    ELSE doc.level >= Achievements[a].value

\* C21: awardPoints evaluates the achievements after the increased points are
\* stored: when an award leaves the stored points (or level) at or above the
\* value of an active, non-hidden points_earned (or level_reached)
\* achievement, the user holds that achievement when the call returns.
C21_EvaluatedAfterPersist ==
    [][(Completes("awardPoints") /\ last'.points > 0)
          => \A a \in SeqToSet(AchievementIds) :
                (OnPointsOrLevel(a) /\ Reached(a, users'[last'.uid]))
                   => Holds(users'[last'.uid], a)]_vars

\* the award that took the user from below the value of a1 to that value granted a1
C21_Witness ==
    /\ last.op = "awardPoints"
    /\ ~last.error
    /\ last.totalPoints = Achievements["a1"].value
    /\ last.points = articleCreate
    /\ last.granted = <<"a1">>
    /\ Holds(users["u1"], "a1")

\* C22: awardPoints with an action kind without configured reward returns
\* points 0 and the user's current points as totalPoints, and leaves every
\* user's points, level, badges and achievements as they were: no achievement
\* is evaluated or granted.
C22_UnconfiguredActionNoOp ==
    [][(Completes("awardPoints") /\ last'.uid \in UserIds /\ last'.points = 0)
          => /\ \A action \in ActionKinds \ RewardedActions : ActionPoints(action) = 0
             /\ last'.totalPoints = users[last'.uid].points
             /\ last'.granted = <<>>
             /\ users' = users]_vars

\* the call returned 0 points for a user who meets the criteria of a1 and a3
\* without holding them
C22_Witness ==
    /\ last.op = "awardPoints"
    /\ ~last.error
    /\ last.points = 0
    /\ last.totalPoints = 100
    /\ users["u1"].points = 100
    /\ users["u1"].achievements = <<>>

\* C23: awardBonusPoints changes the points and the level of its user only:
\* the achievements and the badges of every user are the same after the call
\* as before, also when the new total meets the criteria of an achievement
\* the user does not hold.
C23_BonusKeepsAchievements ==
    [][Completes("awardBonusPoints")
          => \A u \in UserIds :
                /\ users'[u].achievements = users[u].achievements
                /\ users'[u].badges = users[u].badges
                /\ u # last'.uid => users'[u] = users[u]]_vars

\* a bonus took the user past the values of a1 and a3, neither of which is held
C23_Witness ==
    /\ last.op = "awardBonusPoints"
    /\ ~last.error
    /\ last.points = 100
    /\ users["u1"].points >= Achievements["a1"].value
    /\ users["u1"].level >= Achievements["a3"].value
    /\ users["u1"].achievements = <<>>
    /\ users["u1"].badges = <<>>

\* 00:00 of the most recent Sunday
SundayMidnight(t) == StartOfDay(t) - getDay(t) * TicksPerDay

\* C24: for weekly the resolved start is midnight of the most recent Sunday,
\* whatever the time of day of the call: periodStart and periodEnd of
\* generateLeaderboard and startDate of checkCriteria are the same at every
\* instant of a week.
C24_WeekStartsAtMidnight ==
    /\ \A b \in 1..Len(boards) :
          boards[b].period = "weekly"
             => /\ boards[b].periodStart = SundayMidnight(boards[b].generatedAt)
                /\ boards[b].periodEnd = boards[b].periodStart + DaysPerWeek * TicksPerDay
    /\ periodRange("weekly", now)[1] = SundayMidnight(now)
    /\ startDate("weekly", now) = SundayMidnight(now)

\* the start of the period window an instant lies in
WindowOf(period, t) ==
    CASE period = "daily"   -> StartOfDay(t)
      [] period = "weekly"  -> SundayMidnight(t)
      [] period = "monthly" -> StartOfMonth(t)
      [] period = "yearly"  -> StartOfYear(t)
      [] OTHER              -> 0

\* C25: generateLeaderboard is an idempotent upsert: the calls made for one
\* (scope, period) within one period window leave one stored snapshot for
\* that window, holding the entries and the totalParticipants of the last
\* call; for every period, weekly and all_time included.
C25_OneSnapshotPerWindow ==
    /\ \A i, j \in 1..Len(boards) :
          (i # j /\ boards[i].type = boards[j].type /\ boards[i].period = boards[j].period)
             => WindowOf(boards[i].period, boards[i].generatedAt)
                   # WindowOf(boards[j].period, boards[j].generatedAt)
    /\ \A i \in 1..Len(boards) :
          boards[i].generatedAt = now
             => /\ boards[i].entries = generatedEntries(boards[i].type, boards[i].period, now)
                /\ boards[i].totalParticipants = Len(boards[i].entries)

\* C26: the entries, the ranks and the totalParticipants of a stored snapshot
\* change only when generateLeaderboard replaces the snapshot; every other
\* operation, updateEntry included, leaves the entries of every stored
\* snapshot as they are.
C26_SnapshotsImmutable ==
    [][\A b \in 1..Len(boards) :
          (\/ boards'[b].entries # boards[b].entries
           \/ boards'[b].totalParticipants # boards[b].totalParticipants)
             => last'.op = "generateLeaderboard"]_vars

\* C27: in every state reached by addAchievement, checkAndAwardAchievements,
\* awardPoints and resetUserGamification calls made one after the other, the
\* ids in a user's badges are ids of the user's achievements list.
C27_BadgesAreAchievements ==
    \A u \in UserIds :
        SeqToSet(users[u].badges) \subseteq SeqToSet(AchIds(users[u].achievements))

\* addAchievement granted a1: the badge and the achievements entry are both stored
C27_Witness ==
    /\ last.op = "addAchievement"
    /\ last.granted = <<"a1">>
    /\ users["u1"].badges = <<"a1">>
    /\ AchIds(users["u1"].achievements) = <<"a1">>
    /\ users["u1"].points = 0

\* C28: every awardPoints call returns, and the evaluation it triggers does
\* not start awardPoints or checkAndAwardAchievements again: a call enters
\* addPoints and the evaluation once, from its start, never from its grant loop.
C28_AwardTerminatesOnePass ==
    /\ \A p \in ProcIds : (procs[p].pc # "idle") ~> (procs[p].pc = "idle")
    /\ [][\A p \in ProcIds :
            (procs'[p].pc # procs[p].pc /\ procs'[p].pc \in {"addPoints", "findById"})
               => procs[p].pc \in {"idle", "addPoints"}]_vars

\* an awardPoints call returned after an evaluation pass that granted an achievement
C28_Witness ==
    /\ AllIdle
    /\ last.op = "awardPoints"
    /\ last.points > 0
    /\ last.granted # <<>>

\* C29: for an event with a capacity, after any registerUser (with any status)
\* and unregisterUser calls on an event that started without attendees, the
\* number of attendees with status attending is at most the capacity.
C29_CapacityRespected ==
    \A e \in 1..Len(events) :
        events[e].capacity # NoCapacity => attendeeCount(events[e]) <= events[e].capacity

\* C30: after any RSVP toggles, registerUser and unregisterUser calls on an
\* event, no user id is on the waitlist more than once and no user is in the
\* attendees list and on the waitlist at the same time.
C30_WaitlistConsistent ==
    \A e \in 1..Len(events) :
        /\ NoRepeat(events[e].waitlist)
        /\ \A i \in 1..Len(events[e].attendees) :
              events[e].attendees[i].user \notin SeqToSet(events[e].waitlist)

====
